---- MODULE Spec2Model ----
(***************************************************************************)
(* Model of odmpy/processing/ebook.py: the assembly of an EPUB from a      *)
(* Libby ebook or magazine loan (process_ebook_loan and its helpers).      *)
(*                                                                         *)
(* Strings that the code inspects character by character (URL paths, TOC   *)
(* paths, file names) are sequences of one-character strings, so that      *)
(* prefix tests, extension guessing, fragment stripping and id             *)
(* sanitising are computed as the code computes them.                      *)
(***************************************************************************)
EXTENDS Integers, Sequences, FiniteSets, TLC

VARIABLES
    pc,                     \* position inside process_ebook_loan
    is_magazine,            \* media_info["type"]["id"] == LibbyMediaTypes.Magazine
    is_debug_mode,          \* args.is_debug_mode
    roster,                 \* title_contents["entries"], each entry by its url
    toc,                    \* openbook["nav"]["toc"], each item by its path
    spine,                  \* openbook["spine"]
    title_content_entries,  \* the roster after _filter_content
    idx,                    \* index of the next entry of the per-asset loop
    has_nav,
    has_ncx,
    manifest_entries,
    disk,                   \* files under the book folder: file |-> content
    requests,               \* urls passed to libby_client.make_request, in order
    io_log,                 \* files written by the current call, in order,
                            \* each with the step that wrote it
    package,                \* the OPF package tree: its manifest items
    spine_entries,          \* the catalog spine, filtered and sorted
    itemrefs,               \* the itemref elements of the OPF spine, in order
    epub_zip,               \* the archive: one set of arcnames per write position
    saved,                  \* history: per asset file on disk, what the call
                            \* that fetched and saved it recorded for it
    from_disk,              \* history: the loop indices served by a saved file
    version,                \* _cleanup_soup: the version argument
    soup0,                  \* _cleanup_soup: the document before cleanup
    soup1,                  \* ... after one application
    soup2                   \* ... after two applications

vars == <<pc, is_magazine, is_debug_mode, roster, toc, spine,
          title_content_entries, idx, has_nav, has_ncx, manifest_entries, disk,
          requests, io_log, package, spine_entries, itemrefs, epub_zip, saved, from_disk, version, soup0, soup1, soup2>>

(***************************************************************************)
(* Bounds of the model.                                                    *)
(***************************************************************************)
MaxRoster == 2
MaxToc == 3
MaxSpine == 3
MaxTags == 2

(***************************************************************************)
(* Text helpers.                                                           *)
(***************************************************************************)
None == "<None>"

Range(s) == {s[i] : i \in 1..Len(s)}

\* str.startswith
StartsWith(s, prefix) ==
    /\ Len(s) >= Len(prefix)
    /\ SubSeq(s, 1, Len(prefix)) = prefix

\* s[1:]
Slice1(s) == SubSeq(s, 2, Len(s))

\* 1-based position of the first / last occurrence of character c in s, 0 if none
FirstPos(s, c) ==
    LET at == {i \in 1..Len(s) : s[i] = c}
    IN  IF at = {} THEN 0 ELSE CHOOSE i \in at : \A j \in at : i <= j

LastPos(s, c) ==
    LET at == {i \in 1..Len(s) : s[i] = c}
    IN  IF at = {} THEN 0 ELSE CHOOSE i \in at : \A j \in at : i >= j

\* s.split(c)[0]
SplitFirst(s, c) ==
    IF FirstPos(s, c) = 0 THEN s ELSE SubSeq(s, 1, FirstPos(s, c) - 1)

\* urlparse(url).path for an origin-relative url: the query and the fragment go
UrlPath(url) == SplitFirst(SplitFirst(url, "#"), "?")

\* os.path.basename, os.path.dirname, os.path.join (of relative paths)
Basename(p) == SubSeq(p, LastPos(p, "/") + 1, Len(p))
Dirname(p) == SubSeq(p, 1, LastPos(p, "/") - 1)
Join(a, b) == IF a # <<>> /\ a[Len(a)] = "/" THEN a \o b ELSE a \o <<"/">> \o b

\* posixpath.splitext(p)[1], without the dot; <<>> when there is no extension
\* (a dot that starts the basename opens no extension)
SplitExt(p) ==
    LET b == Basename(p)
        d == LastPos(b, ".")
    IN  IF d <= 1 THEN <<>> ELSE SubSeq(b, d + 1, Len(b))

ExtXhtml == <<"x", "h", "t", "m", "l">>
ExtHtml == <<"h", "t", "m", "l">>
ExtNcx == <<"n", "c", "x">>
ExtCss == <<"c", "s", "s">>
ExtJpg == <<"j", "p", "g">>
ExtPng == <<"p", "n", "g">>

XhtmlType == "application/xhtml+xml"
NcxType == "application/x-dtbncx+xml"
CssType == "text/css"

\* mimetypes.guess_type(path)[0]: decided by the extension alone
guess_type(p) ==
    LET e == SplitExt(p)
    IN  CASE e = ExtXhtml -> XhtmlType
          [] e = ExtHtml -> "text/html"
          [] e = ExtNcx -> NcxType
          [] e = ExtCss -> CssType
          [] e = ExtJpg -> "image/jpeg"
          [] e = ExtPng -> "image/png"
          [] OTHER -> None

\* media_type.startswith("image/")
IsImageType(t) == t \in {"image/jpeg", "image/png"}

PagesPrefix == <<"/", "p", "a", "g", "e", "s", "/">>
ThumbnailsPrefix == <<"/", "t", "h", "u", "m", "b", "n", "a", "i", "l", "s", "/">>
PrivatePrefix == <<"/", "_", "d", "/">>

\* toc_pages = [item["path"].split("#")[0] for item in openbook_toc]
TocPages(t) == [i \in 1..Len(t) |-> SplitFirst(t[i], "#")]

(***************************************************************************)
(* _filter_content                                                         *)
(***************************************************************************)
FilterContentPagesOnly(url, magazine, toc_pages) ==
    LET path == UrlPath(url)
        media_type == guess_type(Slice1(path))
    IN  /\ ~ ( /\ magazine /\ media_type # None
               /\ IsImageType(media_type)
               /\ StartsWith(path, PagesPrefix) )
        /\ ~ ( /\ magazine /\ media_type # None
               /\ media_type = XhtmlType
               /\ Slice1(path) \notin Range(toc_pages) )
        /\ ~ StartsWith(path, PrivatePrefix)

FilterContentKeepsUnlisted(url, magazine, toc_pages) ==
    LET path == UrlPath(url)
        media_type == guess_type(Slice1(path))
    IN  /\ ~ ( /\ magazine /\ media_type # None
               /\ IsImageType(media_type)
               /\ \/ StartsWith(path, PagesPrefix)
                  \/ StartsWith(path, ThumbnailsPrefix) )
        /\ ~ StartsWith(path, PrivatePrefix)

_filter_content(url, magazine, toc_pages) ==
    LET path == UrlPath(url)
        media_type == guess_type(Slice1(path))
    IN  /\ ~ ( /\ magazine /\ media_type # None
               /\ IsImageType(media_type)
               /\ \/ StartsWith(path, PagesPrefix)
                  \/ StartsWith(path, ThumbnailsPrefix) )
        /\ ~ ( /\ magazine /\ media_type # None
               /\ media_type = XhtmlType
               /\ Slice1(path) \notin Range(toc_pages) )
        /\ ~ StartsWith(path, PrivatePrefix)

\* list(filter(lambda e: _filter_content(e, media_info, toc_pages), entries))
RECURSIVE FilterEntries(_, _, _)
FilterEntries(entries, magazine, toc_pages) ==
    IF entries = <<>> THEN <<>>
    ELSE (IF _filter_content(Head(entries), magazine, toc_pages)
          THEN <<Head(entries)>> ELSE <<>>)
         \o FilterEntries(Tail(entries), magazine, toc_pages)

(***************************************************************************)
(* Documents.  A soup is the Doctype items of its top level and its tags   *)
(* in document order; a tag has a name, attributes and, for a script       *)
(* element, the body its text carries as a base64 payload.  The text of a  *)
(* document has the same shape, with tag names as they were typed.         *)
(***************************************************************************)
NoAttrs == [a \in {} |-> ""]
NoPayload == [match |-> FALSE, body |-> <<>>]
Tag(name, attrs) == [name |-> name, attrs |-> attrs, payload |-> NoPayload]

\* tag.get(a): None when the attribute is absent
GetAttr(tag, a) == IF a \in DOMAIN tag.attrs THEN tag.attrs[a] ELSE None
\* not tag.get(a): absent or empty
AttrMissing(tag, a) == GetAttr(tag, a) \in {None, ""}
\* tag[a] = v
SetAttr(tag, a, v) ==
    [tag EXCEPT !.attrs = [x \in (DOMAIN tag.attrs) \cup {a} |->
                              IF x = a THEN v ELSE tag.attrs[x]]]
\* del tag[a]
DelAttr(tag, a) ==
    [tag EXCEPT !.attrs = [x \in (DOMAIN tag.attrs) \ {a} |-> tag.attrs[x]]]

\* html.parser lower-cases the names of the tags it reads
LowerName(n) ==
    CASE n = "SVG" -> "svg"
      [] n = "NAV" -> "nav"
      [] n = "HTML" -> "html"
      [] OTHER -> n

\* BeautifulSoup(text, features="html.parser")
ParseHtml(text) ==
    [doctypes |-> text.doctypes,
     tags |-> [i \in 1..Len(text.tags) |->
                  [text.tags[i] EXCEPT !.name = LowerName(text.tags[i].name)]]]

\* str(soup)
SoupToText(soup) == [doctypes |-> soup.doctypes, tags |-> soup.tags]

(***************************************************************************)
(* _cleanup_soup                                                           *)
(***************************************************************************)
ModifiedDoctype ==
    "html PUBLIC \"-//W3C//DTD XHTML 1.1//EN\" \"http://www.w3.org/TR/xhtml11/DTD/xhtml11.dtd\""
SvgNs == "http://www.w3.org/2000/svg"
XlinkNs == "http://www.w3.org/1999/xlink"
XhtmlNs == "http://www.w3.org/1999/xhtml"

remove_attributes ==
    <<"aria-label", "data-loc", "data-epub-type", "data-document-status",
      "data-xml-lang", "lang", "role", "epub:type", "epub:prefix">>

\* the first Doctype of soup.contents is replaced
ReplaceDoctype(soup) ==
    IF soup.doctypes = <<>> THEN soup
    ELSE [soup EXCEPT !.doctypes[1] = ModifiedDoctype]

\* a slip: only the first tag that carries the attribute loses it
RemoveAttributeFirstOnly(tags, attribute) ==
    [i \in 1..Len(tags) |->
        IF /\ attribute \in DOMAIN tags[i].attrs
           /\ \A j \in 1..(i - 1) : attribute \notin DOMAIN tags[j].attrs
        THEN DelAttr(tags[i], attribute) ELSE tags[i]]

\* for tag in soup.find_all(attrs={attribute: True}): del tag[attribute]
RemoveAttribute(tags, attribute) ==
    [i \in 1..Len(tags) |->
        IF attribute \in DOMAIN tags[i].attrs
        THEN DelAttr(tags[i], attribute) ELSE tags[i]]

RECURSIVE RemoveAttributes(_, _)
RemoveAttributes(tags, attributes) ==
    IF attributes = <<>> THEN tags
    ELSE RemoveAttributes(RemoveAttribute(tags, Head(attributes)), Tail(attributes))

\* for invalid_tag in soup.find_all(tag): invalid_tag.name = "div"
ConvertTags(tags, names) ==
    [i \in 1..Len(tags) |->
        IF tags[i].name \in names THEN [tags[i] EXCEPT !.name = "div"] ELSE tags[i]]

\* every svg element gets the two namespace declarations it lacks
FixSvg(tags) ==
    [i \in 1..Len(tags) |->
        IF tags[i].name # "svg" THEN tags[i]
        ELSE LET t1 == IF AttrMissing(tags[i], "xmlns")
                       THEN SetAttr(tags[i], "xmlns", SvgNs) ELSE tags[i]
             IN  IF AttrMissing(t1, "xmlns:xlink")
                 THEN SetAttr(t1, "xmlns:xlink", XlinkNs) ELSE t1]

\* remove_tag.decompose(); html.parser reads base as a void element, so it
\* has no descendants to take with it
RECURSIVE RemoveTags(_, _)
RemoveTags(tags, names) ==
    IF tags = <<>> THEN <<>>
    ELSE (IF Head(tags).name \in names THEN <<>> ELSE <<Head(tags)>>)
         \o RemoveTags(Tail(tags), names)

\* html_tag = soup.find("html"): the first one, if any
FixHtml(tags) ==
    [i \in 1..Len(tags) |->
        IF /\ tags[i].name = "html"
           /\ \A j \in 1..(i - 1) : tags[j].name # "html"
           /\ AttrMissing(tags[i], "xmlns")
        THEN SetAttr(tags[i], "xmlns", XhtmlNs) ELSE tags[i]]

_cleanup_soup(soup, v) ==
    LET s1 == IF v = "2.0" THEN ReplaceDoctype(soup) ELSE soup
        t1 == IF v = "2.0"
              THEN ConvertTags(RemoveAttributes(s1.tags, remove_attributes),
                               {"nav", "section"})
              ELSE s1.tags
        t2 == FixSvg(t1)
        t3 == ConvertTags(t2, {"figcaption"})
        t4 == RemoveTags(t3, {"base"})
    IN  [doctypes |-> s1.doctypes, tags |-> FixHtml(t4)]

(***************************************************************************)
(* _sanitise_opf_id, over slugify of odmpy/utils.py                        *)
(***************************************************************************)
Digits == {"0", "1", "2", "3", "4", "5", "6", "7", "8", "9"}
LowerLetters ==
    <<"a", "b", "c", "d", "e", "f", "g", "h", "i", "j", "k", "l", "m",
      "n", "o", "p", "q", "r", "s", "t", "u", "v", "w", "x", "y", "z">>
UpperLetters ==
    <<"A", "B", "C", "D", "E", "F", "G", "H", "I", "J", "K", "L", "M",
      "N", "O", "P", "Q", "R", "S", "T", "U", "V", "W", "X", "Y", "Z">>
LowerChar(c) ==
    IF c \in Range(UpperLetters) THEN LowerLetters[FirstPos(UpperLetters, c)] ELSE c
WordChars == Range(LowerLetters) \cup Digits \cup {"_"}

\* re.sub(r"[^\w\s-]", "", value.lower())
RECURSIVE KeepSlugChars(_)
KeepSlugChars(value) ==
    IF value = <<>> THEN <<>>
    ELSE (IF LowerChar(Head(value)) \in WordChars \cup {" ", "-"}
          THEN <<LowerChar(Head(value))>> ELSE <<>>)
         \o KeepSlugChars(Tail(value))

\* re.sub(r"[-\s]+", "-", value)
RECURSIVE CollapseDashes(_)
CollapseDashes(value) ==
    IF value = <<>> THEN <<>>
    ELSE IF Head(value) \in {" ", "-"}
         THEN IF Len(value) > 1 /\ value[2] \in {" ", "-"}
              THEN CollapseDashes(Tail(value))
              ELSE <<"-">> \o CollapseDashes(Tail(value))
         ELSE <<Head(value)>> \o CollapseDashes(Tail(value))

\* value.strip("-_")
RECURSIVE StripDashes(_)
StripDashes(value) ==
    IF value = <<>> THEN <<>>
    ELSE IF Head(value) \in {"-", "_"} THEN StripDashes(Tail(value))
    ELSE IF value[Len(value)] \in {"-", "_"}
         THEN StripDashes(SubSeq(value, 1, Len(value) - 1))
    ELSE value

slugify(value) == StripDashes(CollapseDashes(KeepSlugChars(value)))

_sanitise_opf_id(string_id) ==
    LET slug == slugify(string_id)
    IN  IF slug[1] \in Digits THEN <<"i", "d", "_">> \o slug ELSE slug

(***************************************************************************)
(* _sort_spine_entries and the spine section of the OPF                    *)
(***************************************************************************)
SentinelRank == 999

\* toc_pages.index(path), or the sentinel on ValueError
TocIndex(toc_pages, path) ==
    IF FirstPos(toc_pages, path) = 0 THEN SentinelRank
    ELSE FirstPos(toc_pages, path) - 1

\* a slip: the TOC is ignored and the catalog position alone decides
SortSpineEntriesByPosition(a, b, toc_pages) ==
    IF a.pos < b.pos THEN -1 ELSE 1

_sort_spine_entries(a, b, toc_pages) ==
    LET a_index == TocIndex(toc_pages, a.path)
        b_index == TocIndex(toc_pages, b.path)
    IN  IF a_index # b_index
        THEN (IF a_index < b_index THEN -1 ELSE 1)
        ELSE (IF a.pos < b.pos THEN -1 ELSE 1)

\* sorted(entries, key=cmp_to_key(...)): a stable insertion sort, in which
\* x sorts before y exactly when the comparator returns a negative number
RECURSIVE InsertEntry(_, _, _)
InsertEntry(sorted, x, toc_pages) ==
    IF sorted = <<>> THEN <<x>>
    ELSE IF _sort_spine_entries(x, Head(sorted), toc_pages) < 0
         THEN <<x>> \o sorted
         ELSE <<Head(sorted)>> \o InsertEntry(Tail(sorted), x, toc_pages)

RECURSIVE SortEntries(_, _)
SortEntries(entries, toc_pages) ==
    IF entries = <<>> THEN <<>>
    ELSE InsertEntry(SortEntries(SubSeq(entries, 1, Len(entries) - 1), toc_pages),
                     entries[Len(entries)], toc_pages)

\* the filter of openbook["spine"]: a magazine keeps TOC-listed entries only
RECURSIVE FilterSpine(_, _, _)
FilterSpine(entries, magazine, toc_pages) ==
    IF entries = <<>> THEN <<>>
    ELSE (IF magazine /\ Head(entries).path \notin Range(toc_pages)
          THEN <<>> ELSE <<Head(entries)>>)
         \o FilterSpine(Tail(entries), magazine, toc_pages)

SortedSpine(entries, magazine, toc_pages) ==
    SortEntries(FilterSpine(entries, magazine, toc_pages), toc_pages)

\* one itemref per sorted entry, its idref the sanitised path; `path` records
\* the entry the itemref was emitted for
RECURSIVE ItemRefs(_, _, _)
ItemRefs(entries, magazine, toc_pages) ==
    IF entries = <<>> THEN <<>>
    ELSE (IF magazine /\ Head(entries).path \notin Range(toc_pages)
          THEN <<>>
          ELSE <<[idref |-> _sanitise_opf_id(Head(entries).path),
                  path |-> Head(entries).path]>>)
         \o ItemRefs(Tail(entries), magazine, toc_pages)

(***************************************************************************)
(* process_ebook_loan: names, files and documents                          *)
(***************************************************************************)
MetaName == <<"M", "E", "T", "A", "-", "I", "N", "F">>
ContentName == <<"O", "E", "B", "P", "S">>
NavHref == <<"n", "a", "v", ".", "x", "h", "t", "m", "l">>
NcxHref == <<"t", "o", "c", ".", "n", "c", "x">>
CoverHref == <<"c", "o", "v", "e", "r", ".", "j", "p", "g">>
OpfName == <<"p", "a", "c", "k", "a", "g", "e", ".", "o", "p", "f">>
ContainerName == <<"c", "o", "n", "t", "a", "i", "n", "e", "r", ".", "x", "m", "l">>
MimetypeName == <<"m", "i", "m", "e", "t", "y", "p", "e">>
EpubName == <<"b", "o", "o", "k", ".", "e", "p", "u", "b">>
NcxId == <<"n", "c", "x">>
NavId == <<"n", "a", "v">>
CoverId == <<"c", "o", "v", "e", "r", "i", "m", "a", "g", "e">>
MediaJson == <<"m", "e", "d", "i", "a", ".", "j", "s", "o", "n">>
LoanJson == <<"l", "o", "a", "n", ".", "j", "s", "o", "n">>
RostersJson == <<"r", "o", "s", "t", "e", "r", "s", ".", "j", "s", "o", "n">>
OpenbookJson == <<"o", "p", "e", "n", "b", "o", "o", "k", ".", "j", "s", "o", "n">>

epub_version == "3.0"

\* files are named by their path below book_folder
ContentFile(rel) == Join(ContentName, rel)
MetaFile(rel) == Join(MetaName, rel)
\* asset_file_path, from asset_folder and the basename of the url's path
AssetFilePath(path) ==
    Join(Join(ContentName, Dirname(Slice1(path))), Basename(path))

NoFiles == [f \in {} |-> [kind |-> "none"]]
DiskPut(d, f, content) ==
    [x \in (DOMAIN d) \cup {f} |-> IF x = f THEN content ELSE d[x]]
DiskRemove(d, gone) == [x \in (DOMAIN d) \ gone |-> d[x]]
FilesUnder(d, folder) == {f \in DOMAIN d : StartsWith(f, folder \o <<"/">>)}

\* soup.find_all("svg") / soup.find(attrs={"epub:type": "toc"})
HasSvg(soup) == \E i \in 1..Len(soup.tags) : soup.tags[i].name = "svg"
HasTocNav(soup) ==
    \E i \in 1..Len(soup.tags) : GetAttr(soup.tags[i], "epub:type") = "toc"

NamePos(tags, name) ==
    LET at == {i \in 1..Len(tags) : tags[i].name = name}
    IN  IF at = {} THEN 0 ELSE CHOOSE i \in at : \A j \in at : i <= j

\* soup.body.replace_with(new_soup.body): the body element and all it holds
ReplaceBody(soup, new_soup) ==
    [soup EXCEPT !.tags =
        SubSeq(soup.tags, 1, NamePos(soup.tags, "body") - 1)
        \o SubSeq(new_soup.tags, NamePos(new_soup.tags, "body"), Len(new_soup.tags))]

\* script_ele = soup.find("script", attrs={"type": "text/javascript"}) and the
\* match of contents_re in its text
ScriptPayload(soup) ==
    LET at == {i \in 1..Len(soup.tags) :
                  /\ soup.tags[i].name = "script"
                  /\ GetAttr(soup.tags[i], "type") = "text/javascript"}
    IN  IF at = {} THEN NoPayload
        ELSE soup.tags[CHOOSE i \in at : \A j \in at : i <= j].payload

\* lines 397-407: parse, swap in the embedded body if there is one, clean up
PatchXhtml(text) ==
    LET soup == ParseHtml(text)
        found == ScriptPayload(soup)
        decoded == ParseHtml([doctypes |-> <<>>, tags |-> found.body])
    IN  _cleanup_soup(IF found.match THEN ReplaceBody(soup, decoded) ELSE soup,
                      epub_version)

\* the two property checks, in the order of the code: nav overwrites svg
DetectProperties(entry, soup) ==
    LET e1 == IF HasSvg(soup) THEN [entry EXCEPT !.properties = "svg"] ELSE entry
    IN  IF HasTocNav(soup) THEN [e1 EXCEPT !.properties = "nav"] ELSE e1

\* a slip: the already-saved branch looks for the nav landmark only
SavedPropertiesNavOnly(entry, text) ==
    IF HasTocNav(ParseHtml(text)) THEN [entry EXCEPT !.properties = "nav"] ELSE entry

\* lines 369-377: the saved file is parsed and inspected
SavedProperties(entry, text) == DetectProperties(entry, ParseHtml(text))

\* lines 410-415: the cleaned soup is inspected
FetchedProperties(entry, soup) == DetectProperties(entry, soup)

\* lines 350-358
ManifestEntry(path) ==
    LET media_type == guess_type(Slice1(path))
    IN  [href |-> Slice1(path),
         id |-> IF media_type = NcxType THEN NcxId
                ELSE _sanitise_opf_id(Slice1(path)),
         media_type |-> media_type,
         properties |-> None]

NavEntry ==
    [href |-> NavHref, id |-> NavId, media_type |-> XhtmlType, properties |-> "nav"]
NcxEntry ==
    [href |-> NcxHref, id |-> NcxId, media_type |-> NcxType, properties |-> None]
CoverEntry ==
    [href |-> CoverHref, id |-> CoverId, media_type |-> "image/jpeg",
     properties |-> "cover-image"]

NoPackage == [manifest |-> <<>>, built |-> FALSE]

(***************************************************************************)
(* Inputs                                                                  *)
(***************************************************************************)
UrlA == <<"/", "a", ".", "x", "h", "t", "m", "l">>
UrlB == <<"/", "1", "b", ".", "x", "h", "t", "m", "l">>
UrlC == <<"/", "c", ".", "x", "h", "t", "m", "l">>
UrlPagesA == <<"/", "p", "a", "g", "e", "s", "/", "a", ".", "x", "h", "t", "m", "l">>
UrlPage1 == <<"/", "p", "a", "g", "e", "s", "/", "1", ".", "j", "p", "g">>
UrlPage2 == <<"/", "p", "a", "g", "e", "s", "/", "2", ".", "j", "p", "g">>
UrlPage3 == <<"/", "p", "a", "g", "e", "s", "/", "3", ".", "j", "p", "g">>
UrlThumb == <<"/", "t", "h", "u", "m", "b", "n", "a", "i", "l", "s", "/", "1", ".", "p", "n", "g">>
UrlPagesCss == <<"/", "p", "a", "g", "e", "s", "/", "p", ".", "c", "s", "s">>
UrlPagesData == <<"/", "p", "a", "g", "e", "s", "/", "n">>
UrlNcx == <<"/", "t", "o", "c", ".", "n", "c", "x">>
UrlNcx2 == <<"/", "x", "/", "t", "o", "c", ".", "n", "c", "x">>
UrlCss == <<"/", "s", ".", "c", "s", "s", "?", "v", "=", "1">>
UrlPrivate == <<"/", "_", "d", "/", "f", ".", "j", "p", "g">>
TocA == <<"a", ".", "x", "h", "t", "m", "l">>
TocAFrag == <<"a", ".", "x", "h", "t", "m", "l", "#", "f">>
TocB == <<"1", "b", ".", "x", "h", "t", "m", "l">>
TocBFrag == <<"1", "b", ".", "x", "h", "t", "m", "l", "#", "x">>
TocPagesA == <<"p", "a", "g", "e", "s", "/", "a", ".", "x", "h", "t", "m", "l">>
PathZ == <<"z", "z", ".", "x", "h", "t", "m", "l">>

\* sequences of at most n distinct members of S
DistinctSeqs(S, n) ==
    UNION {{f \in [1..k -> S] : \A i, j \in 1..k : i # j => f[i] # f[j]} : k \in 0..n}

\* what the content server may answer for an XHTML asset; every document,
\* embedded ones included, has a body element
TextPlain ==
    [doctypes |-> <<"html">>,
     tags |-> <<Tag("HTML", NoAttrs), Tag("body", NoAttrs),
                Tag("figcaption", "lang" :> "en")>>]
TextSvg ==
    [doctypes |-> <<"html">>,
     tags |-> <<Tag("html", NoAttrs), Tag("body", NoAttrs), Tag("SVG", NoAttrs)>>]
TextEmbedded ==
    [doctypes |-> <<"html">>,
     tags |-> <<Tag("html", NoAttrs), Tag("head", NoAttrs),
                [name |-> "script", attrs |-> "type" :> "text/javascript",
                 payload |-> [match |-> TRUE,
                              body |-> <<Tag("body", NoAttrs), Tag("svg", NoAttrs),
                                         Tag("NAV", "epub:type" :> "toc")>>]],
                Tag("body", NoAttrs), Tag("p", NoAttrs)>>]
DocPool == {TextPlain, TextSvg, TextEmbedded}

\* the assets a roster is drawn from: each has a guessed media type and none
\* is saved under the name of a generated file (nav.xhtml, cover.jpg, ...)
ProcPool == {UrlA, UrlB, UrlPage1, UrlNcx, UrlNcx2, UrlCss}
ProcOpenbooks ==
    { [toc |-> <<>>, spine |-> <<>>],
      [toc |-> <<TocB, TocAFrag, TocBFrag>>,
       spine |-> <<[path |-> TocA, pos |-> 0], [path |-> PathZ, pos |-> 1],
                   [path |-> TocB, pos |-> 2]>>] }

EmptySoup == [doctypes |-> <<>>, tags |-> <<>>]
CleanupIdle ==
    /\ version = epub_version
    /\ soup0 = EmptySoup /\ soup1 = EmptySoup /\ soup2 = EmptySoup

\* the state at the call of process_ebook_loan, the book folder still empty
Init ==
    /\ pc = "start"
    /\ is_magazine \in BOOLEAN
    /\ is_debug_mode \in BOOLEAN
    /\ roster \in DistinctSeqs(ProcPool, MaxRoster)
    /\ \E ob \in ProcOpenbooks : toc = ob.toc /\ spine = ob.spine
    /\ title_content_entries = <<>>
    /\ idx = 0
    /\ has_nav = FALSE /\ has_ncx = FALSE
    /\ manifest_entries = <<>>
    /\ disk = NoFiles
    /\ requests = <<>>
    /\ io_log = <<>>
    /\ package = NoPackage
    /\ spine_entries = <<>>
    /\ itemrefs = <<>>
    /\ epub_zip = <<>>
    /\ saved = NoFiles
    /\ from_disk = {}
    /\ CleanupIdle

inputVars == <<is_magazine, is_debug_mode, roster, toc, spine>>
cleanupVars == <<version, soup0, soup1, soup2>>

(***************************************************************************)
(* process_ebook_loan, step by step                                        *)
(***************************************************************************)
\* lines 273-296: the folders are made and the metadata call answers
MediaOk ==
    /\ pc = "start"
    /\ pc' = "select"
    /\ requests' = Append(requests, [kind |-> "media", url |-> <<>>, ok |-> TRUE])
    /\ UNCHANGED <<inputVars, cleanupVars, title_content_entries, idx, has_nav,
                   has_ncx, manifest_entries, disk, io_log, package, spine_entries,
                   itemrefs, epub_zip, saved, from_disk>>

\* line 296: od_client.media raises, and nothing catches it
MediaFails ==
    /\ pc = "start"
    /\ pc' = "aborted"
    /\ requests' = Append(requests, [kind |-> "media", url |-> <<>>, ok |-> FALSE])
    /\ UNCHANGED <<inputVars, cleanupVars, title_content_entries, idx, has_nav,
                   has_ncx, manifest_entries, disk, io_log, package, spine_entries,
                   itemrefs, epub_zip, saved, from_disk>>

DebugFiles == <<MediaJson, LoanJson, RostersJson, OpenbookJson>>
Written(file, step) == [file |-> file, step |-> step]
FilesWritten == {io_log[i].file : i \in 1..Len(io_log)}
StepsDone == {io_log[i].step : i \in 1..Len(io_log)}
RECURSIVE PutAll(_, _, _)
PutAll(d, files, content) ==
    IF files = <<>> THEN d
    ELSE PutAll(DiskPut(d, Head(files), content), Tail(files), content)

\* lines 298-341: the debug dumps, the TOC pages, the selection of the roster
SelectContent ==
    /\ pc = "select"
    /\ pc' = "assets"
    /\ IF is_debug_mode
       THEN /\ disk' = PutAll(disk, DebugFiles, [kind |-> "json"])
            /\ io_log' = io_log \o [i \in 1..Len(DebugFiles) |-> Written(DebugFiles[i], "dump")]
       ELSE UNCHANGED <<disk, io_log>>
    /\ title_content_entries' = FilterEntries(roster, is_magazine, TocPages(toc))
    /\ manifest_entries' = <<>>
    /\ has_ncx' = FALSE
    /\ has_nav' = FALSE
    /\ idx' = 1
    /\ UNCHANGED <<inputVars, cleanupVars, requests, package, spine_entries,
                   itemrefs, epub_zip, saved, from_disk>>

InLoop == pc = "assets" /\ idx <= Len(title_content_entries)
EntryUrl == title_content_entries[idx]
EntryPath == UrlPath(EntryUrl)
EntryType == guess_type(Slice1(EntryPath))
EntryFile == AssetFilePath(EntryPath)

\* lines 364-377 and 419: the asset file exists; it is read, not fetched
InspectSaved ==
    /\ InLoop
    /\ EntryFile \in DOMAIN disk
    /\ LET e0 == ManifestEntry(EntryPath)
           e == IF EntryType = XhtmlType
                THEN SavedProperties(e0, disk[EntryFile].text) ELSE e0
       IN  /\ manifest_entries' = Append(manifest_entries, e)
           /\ has_nav' = (has_nav \/ e.properties = "nav")
    /\ has_ncx' = (has_ncx \/ EntryType = NcxType)
    /\ idx' = idx + 1
    /\ from_disk' = from_disk \cup {idx}
    /\ UNCHANGED <<pc, inputVars, cleanupVars, title_content_entries, disk, requests,
                   io_log, package, spine_entries, itemrefs, epub_zip, saved>>

\* what lines 388-418 write for the response
AssetContent(url, media_type, magazine, soup) ==
    CASE magazine /\ media_type = CssType ->
            [kind |-> "css", url |-> url, patched |-> TRUE]
      [] ~(magazine /\ media_type = CssType) /\ media_type = XhtmlType ->
            [kind |-> "xhtml", text |-> SoupToText(soup)]
      [] OTHER -> [kind |-> "bytes", url |-> url]

\* lines 378-419: the asset is fetched, patched, saved and recorded
FetchAsset ==
    /\ InLoop
    /\ EntryFile \notin DOMAIN disk
    /\ \E text \in (IF EntryType = XhtmlType THEN DocPool ELSE {EmptySoup}) :
        LET soup == PatchXhtml(text)
            e0 == ManifestEntry(EntryPath)
            e == IF EntryType = XhtmlType THEN FetchedProperties(e0, soup) ELSE e0
        IN  /\ disk' = DiskPut(disk, EntryFile,
                               AssetContent(EntryUrl, EntryType, is_magazine, soup))
            /\ manifest_entries' = Append(manifest_entries, e)
            /\ has_nav' = (has_nav \/ e.properties = "nav")
            /\ saved' = DiskPut(saved, EntryFile,
                                [entry |-> e,
                                 content |-> AssetContent(EntryUrl, EntryType,
                                                          is_magazine, soup)])
    /\ requests' = Append(requests, [kind |-> "asset", url |-> EntryUrl, ok |-> TRUE])
    /\ io_log' = Append(io_log, Written(EntryFile, "asset"))
    /\ has_ncx' = (has_ncx \/ EntryType = NcxType)
    /\ idx' = idx + 1
    /\ UNCHANGED <<pc, inputVars, cleanupVars, title_content_entries, package,
                   spine_entries, itemrefs, epub_zip, from_disk>>

\* a slip: a failed fetch is swallowed and the loop moves on to the next entry
FetchFailsSkipsEntry ==
    /\ InLoop
    /\ EntryFile \notin DOMAIN disk
    /\ requests' = Append(requests, [kind |-> "asset", url |-> EntryUrl, ok |-> FALSE])
    /\ idx' = idx + 1
    /\ UNCHANGED <<pc, inputVars, cleanupVars, title_content_entries, has_nav, has_ncx,
                   manifest_entries, disk, io_log, package, spine_entries, itemrefs,
                   epub_zip, saved, from_disk>>

\* lines 384-386: make_request raises, and nothing catches it
FetchFails ==
    /\ InLoop
    /\ EntryFile \notin DOMAIN disk
    /\ requests' = Append(requests, [kind |-> "asset", url |-> EntryUrl, ok |-> FALSE])
    /\ pc' = "aborted"
    /\ UNCHANGED <<inputVars, cleanupVars, title_content_entries, idx, has_nav, has_ncx,
                   manifest_entries, disk, io_log, package, spine_entries, itemrefs,
                   epub_zip, saved, from_disk>>

\* lines 421-461: nav.xhtml and toc.ncx are generated where the roster had none
SynthesizeNavigation ==
    /\ pc = "assets"
    /\ idx > Len(title_content_entries)
    /\ pc' = "opf"
    /\ LET nav_file == ContentFile(NavHref)
           ncx_file == ContentFile(NcxHref)
           d1 == IF has_nav THEN disk
                 ELSE DiskPut(disk, nav_file, [kind |-> "nav", items |-> toc])
           d2 == IF has_ncx THEN d1
                 ELSE DiskPut(d1, ncx_file, [kind |-> "ncx", items |-> toc])
       IN  /\ disk' = d2
           /\ io_log' = io_log
                         \o (IF has_nav THEN <<>> ELSE <<Written(nav_file, "nav")>>)
                         \o (IF has_ncx THEN <<>> ELSE <<Written(ncx_file, "ncx")>>)
    /\ manifest_entries' = manifest_entries
                           \o (IF has_nav THEN <<>> ELSE <<NavEntry>>)
                           \o (IF has_ncx THEN <<>> ELSE <<NcxEntry>>)
    /\ has_ncx' = TRUE
    /\ UNCHANGED <<inputVars, cleanupVars, title_content_entries, idx, has_nav,
                   requests, package, spine_entries, itemrefs, epub_zip, saved, from_disk>>

\* lines 463-549: the package is built (manifest, cover, spine) and written
BuildOpf(cover_path) ==
    /\ pc = "opf"
    /\ pc' = "container"
    /\ LET opf_file == ContentFile(OpfName)
           cover_file == ContentFile(CoverHref)
           toc_pages == TocPages(toc)
           sorted == SortedSpine(spine, is_magazine, toc_pages)
           refs == ItemRefs(sorted, is_magazine, toc_pages)
           built == [manifest |-> manifest_entries
                                  \o (IF cover_path THEN <<CoverEntry>> ELSE <<>>),
                     built |-> TRUE]
           d1 == IF cover_path THEN DiskPut(disk, cover_file, [kind |-> "cover"])
                 ELSE disk
       IN  /\ package' = built
           /\ spine_entries' = sorted
           /\ itemrefs' = refs
           /\ disk' = DiskPut(d1, opf_file,
                              [kind |-> "opf", package |-> built, itemrefs |-> refs])
           /\ io_log' = io_log
                         \o (IF cover_path THEN <<Written(cover_file, "cover")>> ELSE <<>>)
                         \o <<Written(opf_file, "opf")>>
    /\ UNCHANGED <<inputVars, cleanupVars, title_content_entries, idx, has_nav,
                   has_ncx, manifest_entries, requests, epub_zip, saved, from_disk>>

\* lines 551-571
WriteContainer ==
    /\ pc = "container"
    /\ pc' = "mimetype"
    /\ disk' = DiskPut(disk, MetaFile(ContainerName), [kind |-> "container"])
    /\ io_log' = Append(io_log, Written(MetaFile(ContainerName), "container"))
    /\ UNCHANGED <<inputVars, cleanupVars, title_content_entries, idx, has_nav,
                   has_ncx, manifest_entries, requests, package, spine_entries,
                   itemrefs, epub_zip, saved, from_disk>>

\* lines 573-575
WriteMimetype ==
    /\ pc = "mimetype"
    /\ pc' = "zip"
    /\ disk' = DiskPut(disk, MimetypeName, [kind |-> "mimetype"])
    /\ io_log' = Append(io_log, Written(MimetypeName, "mimetype"))
    /\ UNCHANGED <<inputVars, cleanupVars, title_content_entries, idx, has_nav,
                   has_ncx, manifest_entries, requests, package, spine_entries,
                   itemrefs, epub_zip, saved, from_disk>>

\* a slip: the folders are archived first and the mimetype entry last
ZipEntriesMimetypeLast(d) ==
    <<{MetaName}, FilesUnder(d, MetaName),
      {ContentName}, FilesUnder(d, ContentName), {MimetypeName}>>

\* lines 581-594: the arcnames in the order they are added; the files of one
\* os.walk come in an order the file system decides, so they form one set
ZipEntries(d) ==
    <<{MimetypeName},
      {MetaName}, FilesUnder(d, MetaName),
      {ContentName}, FilesUnder(d, ContentName)>>

\* lines 577-595
ZipEpub ==
    /\ pc = "zip"
    /\ pc' = "cleanup"
    /\ epub_zip' = ZipEntries(disk)
    /\ disk' = DiskPut(disk, EpubName, [kind |-> "epub", entries |-> ZipEntries(disk)])
    /\ io_log' = Append(io_log, Written(EpubName, "epub"))
    /\ UNCHANGED <<inputVars, cleanupVars, title_content_entries, idx, has_nav,
                   has_ncx, manifest_entries, requests, package, spine_entries,
                   itemrefs, saved, from_disk>>

\* lines 597-610: outside debug mode the working files and folders are removed
CleanUp ==
    /\ pc = "cleanup"
    /\ pc' = "done"
    /\ LET gone == IF is_debug_mode THEN {}
                   ELSE {MimetypeName} \cup Range(DebugFiles)
                        \cup FilesUnder(disk, ContentName)
                        \cup FilesUnder(disk, MetaName)
       IN  /\ disk' = DiskRemove(disk, gone)
           /\ saved' = DiskRemove(saved, gone)
    /\ UNCHANGED <<inputVars, cleanupVars, title_content_entries, idx, has_nav,
                   has_ncx, manifest_entries, requests, io_log, package,
                   spine_entries, itemrefs, epub_zip, from_disk>>

\* process_ebook_loan is called again for the same loan: the book folder is
\* as the last call left it, everything else starts afresh
NextCall ==
    /\ pc \in {"done", "aborted"}
    /\ pc' = "start"
    /\ title_content_entries' = <<>>
    /\ idx' = 0
    /\ has_nav' = FALSE /\ has_ncx' = FALSE
    /\ manifest_entries' = <<>>
    /\ requests' = <<>>
    /\ io_log' = <<>>
    /\ package' = NoPackage
    /\ spine_entries' = <<>>
    /\ itemrefs' = <<>>
    /\ epub_zip' = <<>>
    /\ from_disk' = {}
    /\ UNCHANGED <<inputVars, cleanupVars, disk, saved>>

Next ==
    \/ MediaOk
    \/ MediaFails
    \/ SelectContent
    \/ InspectSaved
    \/ FetchAsset
    \/ FetchFails
    \/ SynthesizeNavigation
    \/ \E cover_path \in BOOLEAN : BuildOpf(cover_path)
    \/ WriteContainer
    \/ WriteMimetype
    \/ ZipEpub
    \/ CleanUp
    \/ NextCall

Spec == Init /\ [][Next]_vars

(***************************************************************************)
(* The Content Selector on its own: the state after the metadata call,     *)
(* over a wider choice of rosters and TOCs.                                *)
(***************************************************************************)
SelectPool ==
    {UrlA, UrlC, UrlPagesA, UrlPage1, UrlThumb, UrlPagesCss, UrlPagesData,
     UrlNcx, UrlCss, UrlPrivate}
SelectTocs == {<<>>, <<TocAFrag>>, <<TocPagesA, TocA>>, <<TocB, TocAFrag>>}
ScenarioRoster == <<UrlPage1, UrlPage2, UrlPage3, UrlA, UrlC>>
ScenarioToc == <<TocAFrag>>

ProcessIdle ==
    /\ title_content_entries = <<>>
    /\ idx = 0
    /\ has_nav = FALSE /\ has_ncx = FALSE
    /\ manifest_entries = <<>>
    /\ disk = NoFiles
    /\ io_log = <<>>
    /\ package = NoPackage
    /\ spine_entries = <<>>
    /\ itemrefs = <<>>
    /\ epub_zip = <<>>
    /\ saved = NoFiles
    /\ from_disk = {}

InitSelect ==
    /\ pc = "select"
    /\ requests = <<[kind |-> "media", url |-> <<>>, ok |-> TRUE]>>
    /\ is_magazine \in BOOLEAN
    /\ is_debug_mode \in BOOLEAN
    /\ roster \in DistinctSeqs(SelectPool, MaxRoster) \cup {ScenarioRoster}
    /\ toc \in SelectTocs
    /\ spine = <<>>
    /\ ProcessIdle
    /\ CleanupIdle

SpecSelect == InitSelect /\ [][SelectContent]_vars

Selected == pc = "assets" /\ idx = 1 /\ manifest_entries = <<>>
UnderPreviewPrefix(url) ==
    \/ StartsWith(UrlPath(url), PagesPrefix)
    \/ StartsWith(UrlPath(url), ThumbnailsPrefix)
UrlType(url) == guess_type(Slice1(UrlPath(url)))
Retained(url) == url \in Range(title_content_entries)

\* C5 as claimed: for a magazine, every roster entry whose path begins with
\* /pages/ or /thumbnails/ is dropped, whatever its guessed media type.
C5_PreviewPrefixDroppedAnyType ==
    (Selected /\ is_magazine) =>
        \A url \in Range(roster) : UnderPreviewPrefix(url) => ~Retained(url)

\* C5 as amended: for a magazine, every roster entry whose guessed media type
\* is an image type and whose path begins with /pages/ or /thumbnails/ is
\* dropped.
C5_PreviewImagesDropped ==
    (Selected /\ is_magazine) =>
        \A url \in Range(roster) :
            (IsImageType(UrlType(url)) /\ UnderPreviewPrefix(url)) => ~Retained(url)

C5_Witness ==
    /\ Selected /\ is_magazine
    /\ UrlThumb \in Range(roster) /\ ~Retained(UrlThumb)
    /\ UrlPage1 \in Range(roster) /\ ~Retained(UrlPage1)

\* C6: for a magazine, an XHTML-typed entry is retained only if its path is in
\* the TOC page set; of three /pages/ images and two XHTML entries, one listed
\* in the TOC, only the listed XHTML entry is retained; for a loan that is no
\* magazine, nothing is dropped but the entries under /_d/.
C6_MagazineXhtmlOnlyFromToc ==
    Selected =>
        /\ is_magazine =>
              \A url \in Range(roster) :
                  (Retained(url) /\ UrlType(url) = XhtmlType)
                      => Slice1(UrlPath(url)) \in Range(TocPages(toc))
        /\ (is_magazine /\ roster = ScenarioRoster /\ toc = ScenarioToc)
              => title_content_entries = <<UrlA>>
        /\ ~is_magazine =>
              \A url \in Range(roster) :
                  ~Retained(url) => StartsWith(UrlPath(url), PrivatePrefix)

C6_Witness ==
    /\ Selected /\ is_magazine
    /\ roster = ScenarioRoster /\ toc = ScenarioToc
    /\ title_content_entries = <<UrlA>>

(***************************************************************************)
(* The Spine Orderer on its own: lines 500-521 applied to a catalog spine  *)
(* and a TOC.                                                              *)
(***************************************************************************)
PathA == <<"a">>
PathB == <<"b">>
PathC == <<"c">>
PathD == <<"d">>
PathAFrag == <<"a", "#", "x">>

DigitChars == <<"0", "1", "2", "3", "4", "5", "6", "7", "8", "9">>
RECURSIVE Decimal(_)
Decimal(n) ==
    IF n < 10 THEN <<DigitChars[n + 1]>>
    ELSE Decimal(n \div 10) \o <<DigitChars[(n % 10) + 1]>>
\* the path of page n of a long book
PagePath(n) == <<"p">> \o Decimal(n)

\* every sequence of at most n members of S
SeqsUpTo(S, n) == UNION {[1..k -> S] : k \in 0..n}

\* a catalog spine over the given paths; the catalog numbers the entries
\* in list order or against it
SpineOf(paths, reversed) ==
    [i \in 1..Len(paths) |->
        [path |-> paths[i],
         pos |-> IF reversed THEN Len(paths) - i ELSE i - 1]]

\* a TOC with more pages than the sentinel rank
LongToc == [i \in 1..(SentinelRank + 2) |-> PagePath(i - 1)]

InitSort ==
    /\ pc = "spine"
    /\ is_magazine \in BOOLEAN
    /\ is_debug_mode = FALSE
    /\ roster = <<>>
    /\ requests = <<>>
    /\ \/ /\ toc \in SeqsUpTo({PathA, PathC, PathAFrag}, MaxToc)
          /\ \E paths \in DistinctSeqs({PathA, PathB, PathC, PathD}, MaxSpine) :
                \E reversed \in BOOLEAN : spine = SpineOf(paths, reversed)
       \/ /\ toc = LongToc
          /\ \E paths \in DistinctSeqs({PagePath(SentinelRank),
                                        PagePath(SentinelRank + 1), PathD}, MaxSpine) :
                \E reversed \in BOOLEAN : spine = SpineOf(paths, reversed)
    /\ ProcessIdle
    /\ CleanupIdle

\* lines 500-521: filter, sort, emit the itemrefs
SortSpine ==
    /\ pc = "spine"
    /\ pc' = "sorted"
    /\ spine_entries' = SortedSpine(spine, is_magazine, TocPages(toc))
    /\ itemrefs' = ItemRefs(SortedSpine(spine, is_magazine, TocPages(toc)),
                            is_magazine, TocPages(toc))
    /\ UNCHANGED <<inputVars, cleanupVars, title_content_entries, idx, has_nav,
                   has_ncx, manifest_entries, disk, requests, io_log, package,
                   epub_zip, saved, from_disk>>

SpecSort == InitSort /\ [][SortSpine]_vars

Occurrences(s, x) == {i \in 1..Len(s) : s[i] = x}
SpinePaths == {spine[i].path : i \in 1..Len(spine)}
\* every spine entry whose path the TOC lists has an itemref
ListedHaveItemRefs ==
    \A p \in SpinePaths :
        Occurrences(TocPages(toc), p) # {}
            => \E x \in 1..Len(itemrefs) : itemrefs[x].path = p

\* C3 as claimed: if P appears at TOC index i and Q at TOC index j, i < j, and
\* both are catalog spine entries, then P's itemref precedes Q's itemref.
C3_TocOrderAnyOccurrence ==
    pc = "sorted" =>
        /\ ListedHaveItemRefs
        /\ \A x, y \in 1..Len(itemrefs) :
              ( /\ itemrefs[x].path # itemrefs[y].path
                /\ \E i \in Occurrences(TocPages(toc), itemrefs[x].path) :
                      \E j \in Occurrences(TocPages(toc), itemrefs[y].path) : i < j )
              => x < y

\* C3 as amended: if the first occurrence of P in the TOC page list is at
\* index i and the first occurrence of Q at index j, i < j, and both are
\* catalog spine entries, then P's itemref precedes Q's itemref.
C3_TocOrderFirstOccurrence ==
    pc = "sorted" =>
        /\ ListedHaveItemRefs
        /\ \A x, y \in 1..Len(itemrefs) :
              ( /\ FirstPos(TocPages(toc), itemrefs[x].path) > 0
                /\ FirstPos(TocPages(toc), itemrefs[y].path) > 0
                /\ FirstPos(TocPages(toc), itemrefs[x].path)
                      < FirstPos(TocPages(toc), itemrefs[y].path) )
              => x < y

\* the TOC reverses the catalog order of two entries, and the spine follows it
C3_Witness ==
    /\ pc = "sorted"
    /\ Len(itemrefs) >= 3
    /\ \E x, y \in 1..Len(spine_entries) :
          /\ x < y
          /\ spine_entries[x].pos > spine_entries[y].pos
          /\ FirstPos(TocPages(toc), spine_entries[x].path) > 0
          /\ FirstPos(TocPages(toc), spine_entries[y].path) > 0

\* C4: for every TOC length, every spine entry absent from the TOC is ordered
\* after every TOC-matched entry; entries of equal rank, the TOC-absent ones
\* among them, are in ascending catalog position; spine a:0, b:1, c:2 with
\* TOC [c, a] yields c, a, b.
C4_AbsentAfterMatched ==
    pc = "sorted" =>
        /\ \A x, y \in 1..Len(spine_entries) :
              ( /\ FirstPos(TocPages(toc), spine_entries[x].path) = 0
                /\ FirstPos(TocPages(toc), spine_entries[y].path) > 0 )
              => y < x
        /\ \A x, y \in 1..Len(spine_entries) :
              ( /\ FirstPos(TocPages(toc), spine_entries[x].path)
                      = FirstPos(TocPages(toc), spine_entries[y].path)
                /\ spine_entries[x].pos < spine_entries[y].pos )
              => x < y
        /\ ( /\ spine = SpineOf(<<PathA, PathB, PathC>>, FALSE)
             /\ toc = <<PathC, PathA>> /\ ~is_magazine )
              => spine_entries = <<[path |-> PathC, pos |-> 2],
                                   [path |-> PathA, pos |-> 0],
                                   [path |-> PathB, pos |-> 1]>>

(***************************************************************************)
(* The structural cleanup on its own: _cleanup_soup applied once and then  *)
(* again to its own result.                                                *)
(***************************************************************************)
CleanupTags ==
    { Tag("html", NoAttrs),
      Tag("html", "xmlns" :> XhtmlNs),
      Tag("svg", "lang" :> "en"),
      Tag("svg", ("xmlns" :> "") @@ ("role" :> "img")),
      Tag("nav", "epub:type" :> "toc"),
      Tag("section", ("lang" :> "en") @@ ("aria-label" :> "x")),
      Tag("figcaption", "role" :> "note"),
      Tag("base", "href" :> "x"),
      Tag("p", ("lang" :> "en") @@ ("class" :> "c")) }
CleanupDoctypes == {<<>>, <<"html">>, <<"html", "svg">>}

InitCleanup ==
    /\ pc = "cleanup0"
    /\ version \in {"2.0", "3.0"}
    /\ \E d \in CleanupDoctypes : \E t \in SeqsUpTo(CleanupTags, MaxTags) :
          soup0 = [doctypes |-> d, tags |-> t]
    /\ soup1 = EmptySoup
    /\ soup2 = EmptySoup
    /\ is_magazine = FALSE /\ is_debug_mode = FALSE
    /\ roster = <<>> /\ toc = <<>> /\ spine = <<>>
    /\ requests = <<>>
    /\ ProcessIdle

CleanupOnce ==
    /\ pc = "cleanup0"
    /\ pc' = "cleanup1"
    /\ soup1' = _cleanup_soup(soup0, version)
    /\ UNCHANGED <<inputVars, version, soup0, soup2, title_content_entries, idx,
                   has_nav, has_ncx, manifest_entries, disk, requests, io_log,
                   package, spine_entries, itemrefs, epub_zip, saved, from_disk>>

CleanupAgain ==
    /\ pc = "cleanup1"
    /\ pc' = "cleanup2"
    /\ soup2' = _cleanup_soup(soup1, version)
    /\ UNCHANGED <<inputVars, version, soup0, soup1, title_content_entries, idx,
                   has_nav, has_ncx, manifest_entries, disk, requests, io_log,
                   package, spine_entries, itemrefs, epub_zip, saved, from_disk>>

NextCleanup == CleanupOnce \/ CleanupAgain
SpecCleanup == InitCleanup /\ [][NextCleanup]_vars

\* C10: _cleanup_soup is idempotent: the document cleaned twice is, as
\* written out, the document cleaned once, for either version setting.
C10_CleanupIdempotent ==
    pc = "cleanup2" => SoupToText(soup2) = SoupToText(soup1)

\* a document that the first cleanup changed in every kind of way
C10_Witness ==
    /\ pc = "cleanup2"
    /\ version = "2.0"
    /\ soup1.doctypes # soup0.doctypes
    /\ Len(soup1.tags) < Len(soup0.tags)
    /\ \E i \in 1..Len(soup1.tags) :
          /\ soup1.tags[i].name = "div"
          /\ soup0.tags[i].name # "div"

(***************************************************************************)
(* Properties of process_ebook_loan (specification Spec).                  *)
(***************************************************************************)
NavItems(items) == {i \in 1..Len(items) : items[i].properties = "nav"}
NcxItems(items) == {i \in 1..Len(items) : items[i].id = NcxId}

\* C1: after a full assembly run, exactly one manifest entry carries the
\* property nav and at least one manifest entry has the id ncx.
C1_OneNavAndAnNcx ==
    pc = "done" =>
        /\ Cardinality(NavItems(package.manifest)) = 1
        /\ NcxItems(package.manifest) # {}

\* C2: in the manifest written to the OPF, no two items share an id.
C2_ManifestIdsUnique ==
    pc = "done" =>
        \A i, j \in 1..Len(package.manifest) :
            i # j => package.manifest[i].id # package.manifest[j].id

\* the asset file of the i-th selected entry
FileOfEntry(i) == AssetFilePath(UrlPath(title_content_entries[i]))

C8_FailureAbortsAssembly ==
    \A k \in 1..Len(requests) :
        ~requests[k].ok =>
            /\ pc = "aborted"
            /\ k = Len(requests)
            /\ StepsDone \subseteq {"dump", "asset"}
            /\ package = NoPackage
            /\ epub_zip = <<>>
            /\ idx > 0 => Len(manifest_entries) = idx - 1
            /\ FilesWritten \subseteq DOMAIN disk

\* a fetch fails after another asset was fetched and saved
C8_Witness ==
    /\ pc = "aborted"
    /\ Len(requests) >= 3
    /\ requests[Len(requests)].kind = "asset"
    /\ \E i \in 1..Len(title_content_entries) : FileOfEntry(i) \in FilesWritten

\* C9: in the archive, mimetype is the first entry, before the META-INF and
\* OEBPS directory entries and their files; and the archive is written only
\* after the OPF, container.xml and mimetype files.
C9_MimetypeFirst ==
    epub_zip # <<>> =>
        /\ epub_zip[1] = {MimetypeName}
        /\ \A k \in 2..Len(epub_zip) : MimetypeName \notin epub_zip[k]
        /\ \E m, c \in 2..Len(epub_zip) :
              /\ epub_zip[m] = {MetaName}
              /\ epub_zip[c] = {ContentName}
              /\ MetaFile(ContainerName) \in UNION {epub_zip[k] : k \in (m + 1)..Len(epub_zip)}
              /\ ContentFile(OpfName) \in UNION {epub_zip[k] : k \in (c + 1)..Len(epub_zip)}
        /\ \E e \in 1..Len(io_log) :
              /\ io_log[e] = Written(EpubName, "epub")
              /\ \A f \in {Written(ContentFile(OpfName), "opf"),
                            Written(MetaFile(ContainerName), "container"),
                            Written(MimetypeName, "mimetype")} :
                    \E k \in 1..(e - 1) : io_log[k] = f

\* an archive that holds fetched assets as well
C9_Witness ==
    /\ pc = "done"
    /\ epub_zip # <<>>
    /\ \E i \in 1..Len(title_content_entries) :
          FileOfEntry(i) \in UNION Range(epub_zip)

\* the properties an item carries: the tokens of its properties attribute (the
\* code never writes a value of more than one token)
PropertyTokens(entry) ==
    IF entry.properties = None THEN {} ELSE {entry.properties}

\* the i-th manifest entry belongs to a selected XHTML asset whose document, as
\* written after cleanup, is on disk
ProcessedXhtml(i) ==
    /\ i <= Len(title_content_entries)
    /\ manifest_entries[i].media_type = XhtmlType
    /\ FileOfEntry(i) \in DOMAIN disk
    /\ disk[FileOfEntry(i)].kind = "xhtml"

DocumentOf(i) == ParseHtml(disk[FileOfEntry(i)].text)

\* C11: for every processed XHTML entry, the manifest entry records the
\* properties of the cleaned document: a document with an svg element carries
\* svg, a document with an element of epub:type="toc" carries nav and sets
\* has_nav; a document with both still carries svg.
C11_PropertiesDetected ==
    \A i \in 1..Len(manifest_entries) :
        ProcessedXhtml(i) =>
            /\ HasSvg(DocumentOf(i)) => "svg" \in PropertyTokens(manifest_entries[i])
            /\ HasTocNav(DocumentOf(i)) =>
                  /\ "nav" \in PropertyTokens(manifest_entries[i])
                  /\ has_nav

(***************************************************************************)
(* The roster against the catalog spine: one call whose requests all       *)
(* succeed, from the selection of the roster to the written OPF, over      *)
(* rosters and spines that need not list the same documents.               *)
(***************************************************************************)
UrlPrivateDoc == <<"/", "_", "d", "/", "p", ".", "x", "h", "t", "m", "l">>
TocPage1 == <<"p", "a", "g", "e", "s", "/", "1", ".", "j", "p", "g">>
PathPrivateDoc == <<"_", "d", "/", "p", ".", "x", "h", "t", "m", "l">>

OpfPool == {UrlA, UrlPage1, UrlPrivateDoc}
OpfTocs == {<<>>, <<TocA>>, <<TocPage1, TocAFrag>>}
OpfSpinePaths == {TocA, TocPage1, PathPrivateDoc, PathZ}

InitOpf ==
    /\ pc = "select"
    /\ requests = <<[kind |-> "media", url |-> <<>>, ok |-> TRUE]>>
    /\ is_magazine \in BOOLEAN
    /\ is_debug_mode = FALSE
    /\ roster \in DistinctSeqs(OpfPool, MaxRoster)
    /\ toc \in OpfTocs
    /\ \E paths \in DistinctSeqs(OpfSpinePaths, MaxSpine) :
          spine = SpineOf(paths, FALSE)
    /\ ProcessIdle
    /\ CleanupIdle

NextOpf ==
    \/ SelectContent
    \/ FetchAsset
    \/ SynthesizeNavigation
    \/ \E cover_path \in BOOLEAN : BuildOpf(cover_path)

SpecOpf == InitOpf /\ [][NextOpf]_vars

\* the ids of the items of the manifest written to the OPF
ManifestIds == {package.manifest[j].id : j \in 1..Len(package.manifest)}

\* C12: every itemref of the OPF spine has an idref that is the id of some
\* item of the manifest, for ebooks and for magazines: no spine entry that
\* survives the spine filter refers to a path that the Content Selector
\* dropped or that the roster does not hold.
C12_ItemRefsResolve ==
    package.built =>
        \A k \in 1..Len(itemrefs) : itemrefs[k].idref \in ManifestIds

====
